---- MODULE Spec2Model ----
(***************************************************************************)
(* Model of the policy-evaluation job of rl-daaf:                          *)
(*   - CPRArgs.__post_init__          (daaf/periodic_reward/progargs.py)   *)
(*   - create_tasks, add_experiment_context, evaluate, main                *)
(*                                    (daaf/policyeval/evaljob.py)         *)
(* The collaborators expconfig, task, utils and evaluation are modelled    *)
(* from their documented contracts.                                        *)
(***************************************************************************)
EXTENDS Bags, FiniteSets, Integers, Sequences, TLC

(***************************************************************************)
(* Bounds of the model.                                                    *)
(***************************************************************************)
MaxEnvs == 2
MaxConfigs == 2
MaxRuns == 2
MaxTasks == 4
MaxHandles == 3
MaxShuffleLen == 4
MaxProbeSpecs == 2
MaxMainTasks == 2

(***************************************************************************)
(* Generic helpers.                                                        *)
(***************************************************************************)
\* Python's None for Optional[...] fields: a value v is <<v>>, None is <<>>.
None == <<>>

Some(v) == <<v>>

SeqsUpTo(S, n) == UNION {[1..k -> S] : k \in 0..n}

Range(s) == {s[i] : i \in DOMAIN s}

BagOfSeq(s) == [e \in Range(s) |-> Cardinality({i \in DOMAIN s : s[i] = e})]

Injective(s) == \A i, j \in DOMAIN s : s[i] = s[j] => i = j

\* number of pairs zip(a, b) yields
ZipLen(a, b) == IF Len(a) < Len(b) THEN Len(a) ELSE Len(b)

\* all orderings of the finite set S
Orderings(S) == {s \in [1..Cardinality(S) -> S] : Injective(s)}

(***************************************************************************)
(* daaf/periodic_reward/constants.py                                       *)
(***************************************************************************)
IDENTITY_MAPPER == "identity-mapper"
SINGLE_STEP_MAPPER == "single-step-mapper"
AVERAGE_REWARD_MAPPER == "average-reward-mapper"
REWARD_ESTIMATION_LS_MAPPER == "reward-estimation-ls-mapper"
REWARD_IMPUTATION_MAPPER == "reward-imputation-mapper"
CUMULATIVE_REWARD_MAPPER == "cumulative-reward-mapper"

CU_MAPPER_METHODS ==
    {IDENTITY_MAPPER, SINGLE_STEP_MAPPER, AVERAGE_REWARD_MAPPER,
     REWARD_IMPUTATION_MAPPER, REWARD_ESTIMATION_LS_MAPPER,
     CUMULATIVE_REWARD_MAPPER}

(***************************************************************************)
(* daaf/periodic_reward/progargs.py: CPRArgs                               *)
(***************************************************************************)
\* truth value of an Optional[str]: None and "" are falsy
Truthy(opt) == opt # None /\ opt[1] # ""

\* first check of __post_init__ (lines 40-46): TRUE when it raises
UnknownMapper(args) ==
    /\ Truthy(args.cu_step_mapper)
    /\ args.cu_step_mapper[1] \notin CU_MAPPER_METHODS

BothBuffers_or(args) ==
    args.buffer_size # None \/ args.buffer_size_multiplier # None

\* second check of __post_init__ (lines 48-52): TRUE when it raises
BothBuffers(args) ==
    args.buffer_size # None /\ args.buffer_size_multiplier # None

CPRArgsPostInit_warn(args) == "ok"

\* outcome of constructing CPRArgs(**args)
CPRArgsPostInit(args) ==
    IF UnknownMapper(args) THEN "ValueError"
    ELSE IF BothBuffers(args) THEN "ValueError"
    ELSE "ok"

\* constructor arguments explored
MapperInputs ==
    {None, Some(""), Some("bogus-mapper"), Some("identity-mapper"),
     Some("single-step-mapper"), Some("average-reward-mapper"),
     Some("reward-estimation-ls-mapper"), Some("reward-imputation-mapper"),
     Some("cumulative-reward-mapper")}

BufferInputs == {None, Some(0), Some(10)}

MultiplierInputs == {None, Some(0), Some(2)}

CPRArgsInputs ==
    [reward_period : {1, 4},
     cu_step_mapper : MapperInputs,
     buffer_size : BufferInputs,
     buffer_size_multiplier : MultiplierInputs]

NoArgs ==
    [reward_period |-> 1, cu_step_mapper |-> None,
     buffer_size |-> None, buffer_size_multiplier |-> None]

VARIABLES
    cpr_args,                \* arguments handed to CPRArgs(...)
    cpr_result,              \* "pending", "ok" or "ValueError"
    pc,                      \* position of the driver
    envs_configs,            \* parse_environments(envs_path)
    experiment_configs,      \* parse_experiment_configs(config_path)
    num_runs,                \* args.num_runs
    assets_dir,              \* what assets_dir holds when the batch starts
    wait_empty_returns,      \* ray: whether ray.wait([]) returns or blocks
    probe_key,               \* a key handed to DynaProgStateValueIndex.get
    probe_result,            \* what that get call did
    storage,                 \* baselines persisted under assets_dir
    experiments,             \* create_tasks: experiments
    dyna_prog_specs,         \* add_experiment_context: dyna_prog_specs
    dyna_prog_index,         \* add_experiment_context: dyna_prog_index
    dp_solves,               \* keys handed to the DP solver, in order
    experiments_and_context, \* add_experiment_context: result
    experiment_tasks,        \* create_tasks: experiment_tasks (line 100)
    shuffled_tasks,          \* create_tasks: experiment_tasks (line 113)
    tasks_futures,           \* create_tasks: futures / main: tasks_futures
    pool,                    \* ray: the submitted remote calls, by handle
    futures,                 \* main: futures
    unfinished_tasks,        \* main: unfinished_tasks
    finished_tasks,          \* main: finished_tasks
    idx,                     \* main: position of the for loop
    log,                     \* "Completed task ..." records emitted
    waits                    \* number of ray.wait calls made

argsVars == <<cpr_args, cpr_result>>

inputVars ==
    <<envs_configs, experiment_configs, num_runs, assets_dir,
      wait_empty_returns>>

probeVars == <<probe_key, probe_result>>

genVars ==
    <<storage, experiments, dyna_prog_specs, dyna_prog_index, dp_solves,
      experiments_and_context, experiment_tasks, shuffled_tasks>>

loopVars == <<futures, unfinished_tasks, finished_tasks, idx, log, waits>>

vars ==
    <<argsVars, probeVars, pc, inputVars, genVars, tasks_futures, pool,
      loopVars>>

(***************************************************************************)
(* Inputs of a batch: what parse_environments and parse_experiment_configs *)
(* return, the run count and the content of assets_dir.                    *)
(***************************************************************************)
\* discount factors are written in hundredths (0.9 is 90)
EnvConfigPool ==
    {[name |-> "envA", args |-> [level |-> 1, layout |-> 1]],
     [name |-> "envB", args |-> [level |-> 2, layout |-> 1]],
     [name |-> "envA", args |-> [level |-> 1, layout |-> 2]]}

ValidCPRArgs ==
    [reward_period |-> 4, cu_step_mapper |-> Some(AVERAGE_REWARD_MAPPER),
     buffer_size |-> None, buffer_size_multiplier |-> Some(2)]

BogusMapperArgs ==
    [reward_period |-> 4, cu_step_mapper |-> Some("bogus-mapper"),
     buffer_size |-> None, buffer_size_multiplier |-> Some(2)]

BothBuffersArgs ==
    [reward_period |-> 4, cu_step_mapper |-> Some(AVERAGE_REWARD_MAPPER),
     buffer_size |-> Some(10), buffer_size_multiplier |-> Some(2)]

\* the rows of the configuration file: two sound ones, two that CPRArgs
\* rejects
ExperimentConfigPool ==
    {[discount_factor |-> g, daaf_args |-> ValidCPRArgs] : g \in {90, 99}}
        \cup {[discount_factor |-> 90, daaf_args |-> a] :
                  a \in {BogusMapperArgs, BothBuffersArgs}}

RunConfig ==
    [num_episodes |-> 10, log_episode_frequency |-> 1, output_dir |-> "out"]

TaskPrefix == "exp"

(***************************************************************************)
(* Collaborators (daaf.task, daaf.utils, daaf.expconfig).                  *)
(***************************************************************************)
\* task.create_env_spec(problem, env_args): a (name, level, mdp) descriptor
CreateEnvSpec(problem, env_args) ==
    [name |-> problem,
     level |-> env_args.level,
     mdp |-> [problem |-> problem,
              rewards |-> <<env_args.layout, env_args.level + env_args.layout>>]]

\* the dynamic-programming solver: one value per state, as a numeric array
DPSolve(mdp, gamma) ==
    [data |-> [s \in 1..Len(mdp.rewards) |-> mdp.rewards[s] * gamma]]

\* numpy's ndarray.tolist()
ToList(array) == array.data

BaselineKey(spec) == <<spec[1], spec[2], spec[3]>>

BuildIndexStep_nostore(acc, spec) ==
    LET key == BaselineKey(spec)
        value == DPSolve(spec[4], spec[3])
    IN IF key \in DOMAIN acc.index THEN acc
       ELSE [index |-> (key :> value) @@ acc.index,
             store |-> (key :> value) @@ acc.store,
             solved |-> Append(acc.solved, key)]

BuildIndexStep_always(acc, spec) ==
    LET key == BaselineKey(spec)
        value == DPSolve(spec[4], spec[3])
    IN [index |-> (key :> value) @@ acc.index,
        store |-> (key :> value) @@ acc.store,
        solved |-> Append(acc.solved, key)]

\* one step of build_index over specs[i]; acc = [index, store, solved]
BuildIndexStep(acc, spec) ==
    LET key == BaselineKey(spec) IN
    IF key \in DOMAIN acc.index THEN acc
    ELSE IF key \in DOMAIN acc.store
    THEN [acc EXCEPT !.index = (key :> acc.store[key]) @@ acc.index]
    ELSE LET value == DPSolve(spec[4], spec[3]) IN
         [index |-> (key :> value) @@ acc.index,
          store |-> (key :> value) @@ acc.store,
          solved |-> Append(acc.solved, key)]

RECURSIVE BuildIndexFrom(_, _, _)
BuildIndexFrom(specs, i, acc) ==
    IF i > Len(specs) THEN acc
    ELSE BuildIndexFrom(specs, i + 1, BuildIndexStep(acc, specs[i]))

\* utils.DynaProgStateValueIndex.build_index(specs, path)
BuildIndex(specs, store) ==
    BuildIndexFrom(specs, 1, [index |-> <<>>, store |-> store, solved |-> <<>>])

IndexGet_lazy(index, name, level, gamma) ==
    IF <<name, level, gamma>> \in DOMAIN index
    THEN [raised |-> FALSE, value |-> index[<<name, level, gamma>>],
          index |-> index]
    ELSE [raised |-> FALSE, value |-> [data |-> <<>>],
          index |-> (<<name, level, gamma>> :> [data |-> <<>>]) @@ index]

\* DynaProgStateValueIndex.get(name, level, gamma): the value, or a
\* LookupError; index is the mapping the call leaves behind
IndexGet(index, name, level, gamma) ==
    IF <<name, level, gamma>> \in DOMAIN index
    THEN [raised |-> FALSE, value |-> index[<<name, level, gamma>>],
          index |-> index]
    ELSE [raised |-> TRUE, value |-> [data |-> <<>>], index |-> index]

\* expconfig.create_experiments: the cross product, environment-major
CreateExperiments(envs, configs) ==
    [j \in 1..(Len(envs) * Len(configs)) |->
        LET e == envs[((j - 1) \div Len(configs)) + 1]
            c == configs[((j - 1) % Len(configs)) + 1]
        IN [env_config |-> e,
            learning_args |-> [discount_factor |-> c.discount_factor],
            daaf_args |-> c.daaf_args]]

DigitChar(d) ==
    CASE d = 0 -> "0" [] d = 1 -> "1" [] d = 2 -> "2" [] d = 3 -> "3"
      [] d = 4 -> "4" [] d = 5 -> "5" [] d = 6 -> "6" [] d = 7 -> "7"
      [] d = 8 -> "8" [] d = 9 -> "9"

\* str(n) for n >= 0
RECURSIVE IntToStr(_)
IntToStr(n) ==
    IF n < 10 THEN DigitChar(n)
    ELSE IntToStr(n \div 10) \o DigitChar(n % 10)

\* the experiment id of the counter-th experiment of a batch
ExpId(prefix, counter) == prefix \o "-" \o IntToStr(counter)

GenerateTasks_onebased(run_config, exps_and_context, runs, prefix) ==
    [j \in 1..(Len(exps_and_context) * runs) |->
        LET e == (j - 1) \div runs
            r == (j - 1) % runs
        IN [exp_id |-> ExpId(prefix, e),
            run_id |-> r + 1,
            experiment |-> exps_and_context[e + 1][1],
            run_config |-> run_config,
            context |-> exps_and_context[e + 1][2]]]

\* expconfig.generate_tasks_from_experiments_context_and_run_config
GenerateTasks(run_config, exps_and_context, runs, prefix) ==
    [j \in 1..(Len(exps_and_context) * runs) |->
        LET e == (j - 1) \div runs
            r == (j - 1) % runs
        IN [exp_id |-> ExpId(prefix, e),
            run_id |-> r,
            experiment |-> exps_and_context[e + 1][1],
            run_config |-> run_config,
            context |-> exps_and_context[e + 1][2]]]

(***************************************************************************)
(* daaf/policyeval/evaljob.py                                              *)
(***************************************************************************)
TaskId_exp_only(experiment_task) == experiment_task.exp_id

\* evaluate (line 171): the id a task reports on completion
TaskId(experiment_task) ==
    experiment_task.exp_id \o "/" \o IntToStr(experiment_task.run_id)

\* add_experiment_context (lines 135-145): the spec of one experiment
DynaProgSpec(experiment) ==
    LET env_spec == CreateEnvSpec(experiment.env_config.name,
                                  experiment.env_config.args)
    IN <<env_spec.name, env_spec.level,
         experiment.learning_args.discount_factor, env_spec.mdp>>

RandomSample_choices(population, k) == [1..k -> Range(population)]

RandomSample_short(population, k) ==
    {[i \in 1..(k - 1) |-> population[p[i]]] :
        p \in {q \in [1..(k - 1) -> DOMAIN population] : Injective(q)}}

\* random.sample(population, k): k elements at distinct positions
RandomSample(population, k) ==
    {[i \in 1..k |-> population[p[i]]] :
        p \in {q \in [1..k -> DOMAIN population] : Injective(q)}}

(***************************************************************************)
(* Initial states.                                                         *)
(***************************************************************************)
PersistedBaseline ==
    LET spec == DynaProgSpec([env_config |-> [name |-> "envA",
                                              args |-> [level |-> 1, layout |-> 1]],
                              learning_args |-> [discount_factor |-> 90]])
    IN (BaselineKey(spec) :> DPSolve(spec[4], spec[3])) @@ <<>>

\* assets_dir is empty, or holds a baseline an earlier batch persisted
StorageInputs == {<<>>, PersistedBaseline}

ArgsIdle ==
    /\ cpr_args = NoArgs
    /\ cpr_result = "idle"

ProbeIdle ==
    /\ probe_key = <<>>
    /\ probe_result = [state |-> "idle", value |-> <<>>]

GenEmpty ==
    /\ experiments = <<>>
    /\ dyna_prog_specs = <<>>
    /\ dyna_prog_index = <<>>
    /\ dp_solves = <<>>
    /\ experiments_and_context = <<>>
    /\ experiment_tasks = <<>>
    /\ shuffled_tasks = <<>>

LoopEmpty ==
    /\ futures = <<>>
    /\ unfinished_tasks = <<>>
    /\ finished_tasks = <<>>
    /\ idx = 1
    /\ log = <<>>
    /\ waits = 0

\* create_tasks is entered with the parsed inputs
Init ==
    /\ ArgsIdle
    /\ ProbeIdle
    /\ pc = "create_experiments"
    /\ envs_configs \in SeqsUpTo(EnvConfigPool, MaxEnvs)
    /\ experiment_configs \in SeqsUpTo(ExperimentConfigPool, MaxConfigs)
    /\ num_runs \in 0..MaxRuns
    /\ Len(envs_configs) * Len(experiment_configs) * num_runs <= MaxTasks
    /\ assets_dir \in StorageInputs
    /\ wait_empty_returns = TRUE
    /\ storage = assets_dir
    /\ GenEmpty
    /\ tasks_futures = <<>>
    /\ pool = <<>>
    /\ LoopEmpty

(***************************************************************************)
(* create_tasks and add_experiment_context, step by step.                  *)
(***************************************************************************)
\* parse_experiment_configs builds the CPRArgs of every row
ConfigsRaise(configs) ==
    \E i \in DOMAIN configs : CPRArgsPostInit(configs[i].daaf_args) = "ValueError"

\* create_tasks, lines 89-98
CreateExperimentsStep ==
    /\ pc = "create_experiments"
    /\ IF ConfigsRaise(experiment_configs)
       THEN /\ pc' = "ValueError"
            /\ UNCHANGED experiments
       ELSE /\ experiments' = CreateExperiments(envs_configs, experiment_configs)
            /\ pc' = "specs"
    /\ UNCHANGED <<argsVars, probeVars, inputVars, storage, dyna_prog_specs,
                   dyna_prog_index, dp_solves, experiments_and_context,
                   experiment_tasks, shuffled_tasks, tasks_futures, pool,
                   loopVars>>

\* add_experiment_context, lines 134-145: one iteration of the first loop
AppendSpec ==
    /\ pc = "specs"
    /\ Len(dyna_prog_specs) < Len(experiments)
    /\ dyna_prog_specs' =
          Append(dyna_prog_specs,
                 DynaProgSpec(experiments[Len(dyna_prog_specs) + 1]))
    /\ UNCHANGED <<argsVars, probeVars, pc, inputVars, storage, experiments,
                   dyna_prog_index, dp_solves, experiments_and_context,
                   experiment_tasks, shuffled_tasks, tasks_futures, pool,
                   loopVars>>

BuildIndexCall_early ==
    /\ pc = "specs"
    /\ Len(dyna_prog_specs) = (IF experiments = <<>> THEN 0 ELSE 1)
    /\ LET built == BuildIndex(dyna_prog_specs, storage) IN
          /\ dyna_prog_index' = built.index
          /\ storage' = built.store
          /\ dp_solves' = dp_solves \o built.solved
    /\ pc' = "context"
    /\ UNCHANGED <<argsVars, probeVars, inputVars, experiments,
                   dyna_prog_specs, experiments_and_context, experiment_tasks,
                   shuffled_tasks, tasks_futures, pool, loopVars>>

\* add_experiment_context, lines 147-149
BuildIndexCall ==
    /\ pc = "specs"
    /\ Len(dyna_prog_specs) = Len(experiments)
    /\ LET built == BuildIndex(dyna_prog_specs, storage) IN
          /\ dyna_prog_index' = built.index
          /\ storage' = built.store
          /\ dp_solves' = dp_solves \o built.solved
    /\ pc' = "context"
    /\ UNCHANGED <<argsVars, probeVars, inputVars, experiments, dyna_prog_specs,
                   experiments_and_context, experiment_tasks, shuffled_tasks,
                   tasks_futures, pool, loopVars>>

LookupSpec_next(i) ==
    dyna_prog_specs[IF i < Len(dyna_prog_specs) THEN i + 1 ELSE 1]

\* the spec zipped with experiments[i] (line 152)
LookupSpec(i) == dyna_prog_specs[i]

AttachContext_pop ==
    /\ pc = "context"
    /\ Len(experiments_and_context) < ZipLen(experiments, dyna_prog_specs)
    /\ LET i == Len(experiments_and_context) + 1
           spec == LookupSpec(i)
           got == IndexGet(dyna_prog_index, spec[1], spec[2], spec[3])
       IN /\ dyna_prog_index' =
                [k \in DOMAIN got.index \ {BaselineKey(spec)} |-> got.index[k]]
          /\ IF got.raised
             THEN /\ pc' = "LookupError"
                  /\ UNCHANGED experiments_and_context
             ELSE /\ experiments_and_context' =
                        Append(experiments_and_context,
                               <<experiments[i],
                                 [dyna_prog_state_values |-> ToList(got.value)]>>)
                  /\ UNCHANGED pc
    /\ UNCHANGED <<argsVars, probeVars, inputVars, storage, experiments,
                   dyna_prog_specs, dp_solves, experiment_tasks,
                   shuffled_tasks, tasks_futures, pool, loopVars>>

\* add_experiment_context, lines 152-162: one iteration of the second loop
AttachContext ==
    /\ pc = "context"
    /\ Len(experiments_and_context) < ZipLen(experiments, dyna_prog_specs)
    /\ LET i == Len(experiments_and_context) + 1
           spec == LookupSpec(i)
           got == IndexGet(dyna_prog_index, spec[1], spec[2], spec[3])
       IN /\ dyna_prog_index' = got.index
          /\ IF got.raised
             THEN /\ pc' = "LookupError"
                  /\ UNCHANGED experiments_and_context
             ELSE /\ experiments_and_context' =
                        Append(experiments_and_context,
                               <<experiments[i],
                                 [dyna_prog_state_values |-> ToList(got.value)]>>)
                  /\ UNCHANGED pc
    /\ UNCHANGED <<argsVars, probeVars, inputVars, storage, experiments,
                   dyna_prog_specs, dp_solves, experiment_tasks,
                   shuffled_tasks, tasks_futures, pool, loopVars>>

\* add_experiment_context returns (line 163); create_tasks, lines 100-111
GenerateTasksStep ==
    /\ pc = "context"
    /\ Len(experiments_and_context) = ZipLen(experiments, dyna_prog_specs)
    /\ experiment_tasks' =
          GenerateTasks(RunConfig, experiments_and_context, num_runs, TaskPrefix)
    /\ pc' = "shuffle"
    /\ UNCHANGED <<argsVars, probeVars, inputVars, storage, experiments, dyna_prog_specs,
                   dyna_prog_index, dp_solves, experiments_and_context,
                   shuffled_tasks, tasks_futures, pool, loopVars>>

\* create_tasks, lines 112-113
ShuffleTasks ==
    /\ pc = "shuffle"
    /\ shuffled_tasks' \in RandomSample(experiment_tasks, Len(experiment_tasks))
    /\ pc' = "submit"
    /\ UNCHANGED <<argsVars, probeVars, inputVars, storage, experiments, dyna_prog_specs,
                   dyna_prog_index, dp_solves, experiments_and_context,
                   experiment_tasks, tasks_futures, pool, loopVars>>

\* evaluate.remote(exp_task): the pool registers the call under a new handle
EvaluateRemote(workers, exp_task) ==
    [handle |-> Len(workers) + 1,
     workers |-> Append(workers, [task |-> exp_task, status |-> "running"])]

SubmitTask_resubmit ==
    /\ pc = "submit"
    /\ Len(tasks_futures) < Len(shuffled_tasks)
    /\ LET exp_task == shuffled_tasks[Len(tasks_futures) + 1]
           first == EvaluateRemote(pool, exp_task)
           call == EvaluateRemote(first.workers, exp_task)
       IN /\ pool' = call.workers
          /\ tasks_futures' = Append(tasks_futures, <<exp_task, call.handle>>)
    /\ UNCHANGED <<argsVars, probeVars, pc, inputVars, genVars, loopVars>>

\* create_tasks, lines 121-123: one iteration of the submission loop
SubmitTask ==
    /\ pc = "submit"
    /\ Len(tasks_futures) < Len(shuffled_tasks)
    /\ LET exp_task == shuffled_tasks[Len(tasks_futures) + 1]
           call == EvaluateRemote(pool, exp_task)
       IN /\ pool' = call.workers
          /\ tasks_futures' = Append(tasks_futures, <<exp_task, call.handle>>)
    /\ UNCHANGED <<argsVars, probeVars, pc, inputVars, genVars, loopVars>>

\* create_tasks, line 124
ReturnFutures ==
    /\ pc = "submit"
    /\ Len(tasks_futures) = Len(shuffled_tasks)
    /\ pc' = "main"
    /\ UNCHANGED <<argsVars, probeVars, inputVars, genVars, tasks_futures, pool, loopVars>>

Next ==
    \/ CreateExperimentsStep
    \/ AppendSpec
    \/ BuildIndexCall
    \/ AttachContext
    \/ GenerateTasksStep
    \/ ShuffleTasks
    \/ SubmitTask
    \/ ReturnFutures

Spec == Init /\ [][Next]_vars

(***************************************************************************)
(* Construction of CPRArgs on its own.                                     *)
(***************************************************************************)
InputsEmpty ==
    /\ envs_configs = <<>>
    /\ experiment_configs = <<>>
    /\ num_runs = 0
    /\ assets_dir = <<>>
    /\ wait_empty_returns = TRUE
    /\ storage = <<>>

InitArgs ==
    /\ cpr_args \in CPRArgsInputs
    /\ cpr_result = "pending"
    /\ ProbeIdle
    /\ pc = "idle"
    /\ InputsEmpty
    /\ GenEmpty
    /\ tasks_futures = <<>>
    /\ pool = <<>>
    /\ LoopEmpty

\* CPRArgs(**cpr_args): the dataclass runs __post_init__
ConstructCPRArgs ==
    /\ cpr_result = "pending"
    /\ cpr_result' = CPRArgsPostInit(cpr_args)
    /\ UNCHANGED <<cpr_args, probeVars, pc, inputVars, genVars, tasks_futures, pool,
                   loopVars>>

NextArgs == ConstructCPRArgs

SpecArgs == InitArgs /\ [][NextArgs]_vars

(***************************************************************************)
(* The shuffle of create_tasks on its own, over arbitrary task sequences.  *)
(***************************************************************************)
ShuffleItems ==
    LET experiment == [env_config |-> [name |-> "envA",
                                       args |-> [level |-> 1, layout |-> 1]],
                       learning_args |-> [discount_factor |-> 90],
                       daaf_args |-> ValidCPRArgs]
        context == [dyna_prog_state_values |-> <<90, 180>>]
    IN Range(GenerateTasks(RunConfig, <<<<experiment, context>>>>, 3, TaskPrefix))

InitShuffle ==
    /\ ArgsIdle
    /\ ProbeIdle
    /\ pc = "shuffle"
    /\ InputsEmpty
    /\ experiments = <<>>
    /\ dyna_prog_specs = <<>>
    /\ dyna_prog_index = <<>>
    /\ dp_solves = <<>>
    /\ experiments_and_context = <<>>
    /\ experiment_tasks \in SeqsUpTo(ShuffleItems, MaxShuffleLen)
    /\ shuffled_tasks = <<>>
    /\ tasks_futures = <<>>
    /\ pool = <<>>
    /\ LoopEmpty

NextShuffle == ShuffleTasks

SpecShuffle == InitShuffle /\ [][NextShuffle]_vars

(***************************************************************************)
(* main: the completion loop over the submitted handles (lines 58-73),     *)
(* with the worker pool running the submitted calls.                       *)
(***************************************************************************)
LoopEnvs == <<[name |-> "envA", args |-> [level |-> 1, layout |-> 1]]>>

LoopConfigs == <<[discount_factor |-> 90, daaf_args |-> ValidCPRArgs]>>

\* what add_experiment_context returns for the experiments exps
ContextOf(exps, index) ==
    [i \in DOMAIN exps |->
        LET spec == DynaProgSpec(exps[i]) IN
        <<exps[i],
          [dyna_prog_state_values |->
              ToList(IndexGet(index, spec[1], spec[2], spec[3]).value)]>>]

\* create_tasks has returned the handles of n submitted tasks
InitLoop ==
    /\ ArgsIdle
    /\ ProbeIdle
    /\ pc = "main"
    /\ envs_configs = LoopEnvs
    /\ experiment_configs = LoopConfigs
    /\ num_runs \in 0..MaxHandles
    /\ assets_dir = <<>>
    /\ wait_empty_returns \in BOOLEAN
    /\ experiments = CreateExperiments(envs_configs, experiment_configs)
    /\ dyna_prog_specs = [i \in DOMAIN experiments |-> DynaProgSpec(experiments[i])]
    /\ LET built == BuildIndex(dyna_prog_specs, assets_dir) IN
          /\ dyna_prog_index = built.index
          /\ storage = built.store
          /\ dp_solves = built.solved
    /\ experiments_and_context = ContextOf(experiments, dyna_prog_index)
    /\ experiment_tasks =
          GenerateTasks(RunConfig, experiments_and_context, num_runs, TaskPrefix)
    /\ shuffled_tasks = experiment_tasks
    /\ tasks_futures = [i \in DOMAIN shuffled_tasks |-> <<shuffled_tasks[i], i>>]
    /\ pool = [i \in DOMAIN shuffled_tasks |->
                  [task |-> shuffled_tasks[i], status |-> "running"]]
    /\ LoopEmpty

\* evaluate (lines 171-175): the remote call returns its task id
TaskSucceeds(h) ==
    /\ h \in DOMAIN pool
    /\ pool[h].status = "running"
    /\ pool' = [pool EXCEPT ![h].status = "ok"]
    /\ UNCHANGED <<argsVars, probeVars, pc, inputVars, genVars, tasks_futures, loopVars>>

\* evaluate (line 173): evaluation.run_fn raises inside the remote call
TaskFails(h) ==
    /\ h \in DOMAIN pool
    /\ pool[h].status = "running"
    /\ pool' = [pool EXCEPT ![h].status = "failed"]
    /\ UNCHANGED <<argsVars, probeVars, pc, inputVars, genVars, tasks_futures, loopVars>>

MainStart_guarded ==
    /\ pc = "main"
    /\ futures' = [i \in DOMAIN tasks_futures |-> tasks_futures[i][2]]
    /\ unfinished_tasks' = futures'
    /\ pc' = IF tasks_futures = <<>> THEN "done" ELSE "wait"
    /\ UNCHANGED <<argsVars, probeVars, inputVars, genVars, tasks_futures, pool,
                   finished_tasks, idx, log, waits>>

\* main, lines 60-61
MainStart ==
    /\ pc = "main"
    /\ futures' = [i \in DOMAIN tasks_futures |-> tasks_futures[i][2]]
    /\ unfinished_tasks' = futures'
    /\ pc' = "wait"
    /\ UNCHANGED <<argsVars, probeVars, inputVars, genVars, tasks_futures, pool,
                   finished_tasks, idx, log, waits>>

\* the handles of refs whose remote call has ended, well or not
Ready(workers, refs) == {h \in Range(refs) : workers[h].status # "running"}

Without(refs, gone) == SelectSeq(refs, LAMBDA h : h \notin gone)

\* ray.wait(refs): blocks until a handle of refs is ready, then returns some
\* ready handles, in any order, and the other handles in their order; on an
\* empty refs it returns at once with two empty lists, or blocks for ever
RayWait(workers, refs) ==
    IF refs = <<>>
    THEN IF wait_empty_returns THEN {<<<<>>, <<>>>>} ELSE {}
    ELSE {<<fin, Without(refs, Range(fin))>> :
             fin \in UNION {Orderings(F) :
                               F \in (SUBSET Ready(workers, refs)) \ {{}}}}

RayWaitStep_keep ==
    /\ pc = "wait"
    /\ \E res \in RayWait(pool, unfinished_tasks) :
          /\ finished_tasks' = res[1]
          /\ unfinished_tasks' = unfinished_tasks
    /\ idx' = 1
    /\ waits' = waits + 1
    /\ pc' = "for"
    /\ UNCHANGED <<argsVars, probeVars, inputVars, genVars, tasks_futures, pool, futures,
                   log>>

\* main, line 63
RayWaitStep ==
    /\ pc = "wait"
    /\ \E res \in RayWait(pool, unfinished_tasks) :
          /\ finished_tasks' = res[1]
          /\ unfinished_tasks' = res[2]
    /\ idx' = 1
    /\ waits' = waits + 1
    /\ pc' = "for"
    /\ UNCHANGED <<argsVars, probeVars, inputVars, genVars, tasks_futures, pool, futures,
                   log>>

\* ray.get(ref) of a ready handle: the call's return value, or its exception
RayGet(workers, ref) ==
    IF workers[ref].status = "failed"
    THEN [raised |-> TRUE, value |-> ""]
    ELSE [raised |-> FALSE, value |-> TaskId(workers[ref].task)]

LogRecord_total(task_id, ref) ==
    [task |-> task_id, left |-> Len(futures), total |-> Len(futures),
     ref |-> ref, call |-> waits]

\* the "Completed task %s, %d left out of %d." record (lines 65-70); ref and
\* call note the handle it is about and the ray.wait call that returned it
LogRecord(task_id, ref) ==
    [task |-> task_id, left |-> Len(unfinished_tasks), total |-> Len(futures),
     ref |-> ref, call |-> waits]

NotifyStep_swallow ==
    /\ pc = "for"
    /\ idx <= Len(finished_tasks)
    /\ pool[finished_tasks[idx]].status # "running"
    /\ LET got == RayGet(pool, finished_tasks[idx]) IN
          IF got.raised
          THEN UNCHANGED log
          ELSE log' = Append(log, LogRecord(got.value, finished_tasks[idx]))
    /\ idx' = idx + 1
    /\ UNCHANGED <<argsVars, probeVars, pc, inputVars, genVars, tasks_futures, pool,
                   futures, unfinished_tasks, finished_tasks, waits>>

\* main, lines 64-70: one iteration of the for loop
NotifyStep ==
    /\ pc = "for"
    /\ idx <= Len(finished_tasks)
    /\ pool[finished_tasks[idx]].status # "running"
    /\ LET got == RayGet(pool, finished_tasks[idx]) IN
          IF got.raised
          THEN /\ pc' = "aborted"
               /\ UNCHANGED <<log, idx>>
          ELSE /\ log' = Append(log, LogRecord(got.value, finished_tasks[idx]))
               /\ idx' = idx + 1
               /\ UNCHANGED pc
    /\ UNCHANGED <<argsVars, probeVars, inputVars, genVars, tasks_futures, pool, futures,
                   unfinished_tasks, finished_tasks, waits>>

LoopExit_early(refs) == Len(refs) <= 1

\* main, line 72
LoopExit(refs) == Len(refs) = 0

\* main, lines 72-73, after the for loop
CheckExit ==
    /\ pc = "for"
    /\ idx > Len(finished_tasks)
    /\ pc' = IF LoopExit(unfinished_tasks) THEN "done" ELSE "wait"
    /\ UNCHANGED <<argsVars, probeVars, inputVars, genVars, tasks_futures, pool, loopVars>>

Driver ==
    \/ MainStart
    \/ RayWaitStep
    \/ NotifyStep
    \/ CheckExit

NextLoop ==
    \/ MainStart
    \/ RayWaitStep
    \/ NotifyStep
    \/ CheckExit
    \/ \E h \in 1..MaxHandles : TaskSucceeds(h)
    \/ \E h \in 1..MaxHandles : TaskFails(h)

SpecLoop == InitLoop /\ [][NextLoop]_vars

\* the driver keeps running, and the pool ends every call it was handed
FairSpecLoop ==
    /\ SpecLoop
    /\ WF_vars(Driver)
    /\ \A h \in 1..MaxHandles : WF_vars(TaskSucceeds(h) \/ TaskFails(h))

(***************************************************************************)
(* DynaProgStateValueIndex on its own: an index is built from the specs of *)
(* some experiments and then asked for an arbitrary key.                   *)
(***************************************************************************)
ProbeExperiments ==
    {[env_config |-> e,
      learning_args |-> [discount_factor |-> g],
      daaf_args |-> ValidCPRArgs] : e \in EnvConfigPool, g \in {90, 99}}

ProbeKeys ==
    {BaselineKey(DynaProgSpec(e)) : e \in ProbeExperiments}
        \cup {<<"envC", 1, 90>>}

InitGet ==
    /\ ArgsIdle
    /\ probe_key \in ProbeKeys
    /\ probe_result = [state |-> "pending", value |-> <<>>]
    /\ pc = "specs"
    /\ envs_configs = <<>>
    /\ experiment_configs = <<>>
    /\ num_runs = 0
    /\ assets_dir \in StorageInputs
    /\ wait_empty_returns = TRUE
    /\ storage = assets_dir
    /\ experiments \in SeqsUpTo(ProbeExperiments, MaxProbeSpecs)
    /\ dyna_prog_specs = [i \in DOMAIN experiments |-> DynaProgSpec(experiments[i])]
    /\ dyna_prog_index = <<>>
    /\ dp_solves = <<>>
    /\ experiments_and_context = <<>>
    /\ experiment_tasks = <<>>
    /\ shuffled_tasks = <<>>
    /\ tasks_futures = <<>>
    /\ pool = <<>>
    /\ LoopEmpty

\* dyna_prog_index.get(*probe_key) on the built index
GetProbe ==
    /\ pc = "context"
    /\ probe_result.state = "pending"
    /\ LET got == IndexGet(dyna_prog_index, probe_key[1], probe_key[2],
                           probe_key[3])
       IN /\ dyna_prog_index' = got.index
          /\ probe_result' =
                IF got.raised
                THEN [state |-> "LookupError", value |-> <<>>]
                ELSE [state |-> "returned", value |-> ToList(got.value)]
    /\ UNCHANGED <<argsVars, probe_key, pc, inputVars, storage, experiments,
                   dyna_prog_specs, dp_solves, experiments_and_context,
                   experiment_tasks, shuffled_tasks, tasks_futures, pool,
                   loopVars>>

NextGet ==
    \/ BuildIndexCall
    \/ GetProbe

SpecGet == InitGet /\ [][NextGet]_vars

(***************************************************************************)
(* main as a whole: create_tasks followed by the completion loop, with the *)
(* pool running every call from the moment it is submitted.                *)
(***************************************************************************)
InitMain ==
    /\ Init
    /\ Len(envs_configs) * Len(experiment_configs) * num_runs <= MaxMainTasks

NextMain ==
    \/ CreateExperimentsStep
    \/ AppendSpec
    \/ BuildIndexCall
    \/ AttachContext
    \/ GenerateTasksStep
    \/ ShuffleTasks
    \/ SubmitTask
    \/ ReturnFutures
    \/ MainStart
    \/ RayWaitStep
    \/ NotifyStep
    \/ CheckExit
    \/ \E h \in 1..MaxHandles : TaskSucceeds(h)
    \/ \E h \in 1..MaxHandles : TaskFails(h)

SpecMain == InitMain /\ [][NextMain]_vars

(***************************************************************************)
(* Properties.                                                             *)
(***************************************************************************)
KnownMapperNames ==
    {"identity-mapper", "single-step-mapper", "average-reward-mapper",
     "reward-estimation-ls-mapper", "reward-imputation-mapper",
     "cumulative-reward-mapper"}

MapperAcceptable(args) ==
    \/ args.cu_step_mapper \in {None, Some("")}
    \/ args.cu_step_mapper[1] \in KnownMapperNames

AtMostOneBuffer(args) ==
    args.buffer_size = None \/ args.buffer_size_multiplier = None

\* C5: constructing CPRArgs succeeds exactly when cu_step_mapper, if set, is
\* one of the six known mapper names and buffer_size and
\* buffer_size_multiplier are not both set; otherwise it raises.
C5_ConstructionIff ==
    cpr_result \in {"ok", "ValueError"} =>
        (cpr_result = "ok" <=>
            (MapperAcceptable(cpr_args) /\ AtMostOneBuffer(cpr_args)))

C5_Witness ==
    /\ cpr_result = "ValueError"
    /\ cpr_args.cu_step_mapper = Some("average-reward-mapper")
    /\ cpr_args.buffer_size = Some(10)
    /\ cpr_args.buffer_size_multiplier = Some(2)

TaskCount == Len(envs_configs) * Len(experiment_configs) * num_runs

\* C6: the number of generated tasks, of shuffled tasks and of submitted
\* handles is |environments| x |experiment_configs| x num_runs, repeated
\* (environment, config) pairs included.
C6_TaskCount ==
    /\ pc \in {"shuffle", "submit", "main"} => Len(experiment_tasks) = TaskCount
    /\ pc \in {"submit", "main"} => Len(shuffled_tasks) = TaskCount
    /\ pc = "main" => /\ Len(tasks_futures) = TaskCount
                      /\ Len(pool) = TaskCount

C6_Witness ==
    /\ pc = "main"
    /\ Len(tasks_futures) = 4
    /\ Len(envs_configs) = 2
    /\ envs_configs[1] = envs_configs[2]
    /\ Len(experiment_configs) = 2
    /\ experiment_configs[1] = experiment_configs[2]

DistinctIds(tasks) ==
    \A i, j \in DOMAIN tasks : i # j => TaskId(tasks[i]) # TaskId(tasks[j])

\* C7: the ids exp_id/run_id of the tasks of one batch are pairwise
\* distinct, also when an (environment, config) pair is repeated.
C7_UniqueTaskIds ==
    /\ DistinctIds(experiment_tasks)
    /\ DistinctIds(shuffled_tasks)
    /\ DistinctIds([i \in DOMAIN tasks_futures |-> tasks_futures[i][1]])

C7_Witness ==
    /\ pc = "main"
    /\ Len(tasks_futures) = 4
    /\ num_runs = 2
    /\ Len(envs_configs) = 2
    /\ envs_configs[1] = envs_configs[2]
    /\ tasks_futures[1][1].exp_id # tasks_futures[2][1].exp_id

ExperimentKey(experiment) == BaselineKey(DynaProgSpec(experiment))

SameKeySameBaseline(tasks) ==
    \A i, j \in DOMAIN tasks :
        ExperimentKey(tasks[i].experiment) = ExperimentKey(tasks[j].experiment)
            => tasks[i].context.dyna_prog_state_values
                  = tasks[j].context.dyna_prog_state_values

\* C8: experiments that resolve to the same (env_name, level,
\* discount_factor) carry identical baseline vectors in the context of
\* their tasks.
C8_SharedBaseline ==
    /\ \A i, j \in DOMAIN experiments_and_context :
          ExperimentKey(experiments_and_context[i][1])
                = ExperimentKey(experiments_and_context[j][1])
             => experiments_and_context[i][2] = experiments_and_context[j][2]
    /\ SameKeySameBaseline(experiment_tasks)
    /\ SameKeySameBaseline([i \in DOMAIN tasks_futures |-> tasks_futures[i][1]])

C8_Witness ==
    /\ pc = "main"
    /\ \E i, j \in DOMAIN tasks_futures :
          /\ tasks_futures[i][1].exp_id # tasks_futures[j][1].exp_id
          /\ tasks_futures[i][1].experiment.env_config
                # tasks_futures[j][1].experiment.env_config
          /\ ExperimentKey(tasks_futures[i][1].experiment)
                = ExperimentKey(tasks_futures[j][1].experiment)
    /\ \E i, j \in DOMAIN tasks_futures :
          ExperimentKey(tasks_futures[i][1].experiment)
                # ExperimentKey(tasks_futures[j][1].experiment)

DistinctKeys(specs) == {BaselineKey(specs[i]) : i \in DOMAIN specs}

ScenarioSpecs ==
    <<DynaProgSpec([env_config |-> [name |-> "envA",
                                    args |-> [level |-> 1, layout |-> 1]],
                    learning_args |-> [discount_factor |-> 90]]),
      DynaProgSpec([env_config |-> [name |-> "envA",
                                    args |-> [level |-> 1, layout |-> 1]],
                    learning_args |-> [discount_factor |-> 90]]),
      DynaProgSpec([env_config |-> [name |-> "envB",
                                    args |-> [level |-> 2, layout |-> 1]],
                    learning_args |-> [discount_factor |-> 99]])>>

\* C9: with an empty assets_dir, build_index runs the DP solver once per
\* distinct key of its specs, not once per spec; the three specs with keys
\* (envA,1,0.9), (envA,1,0.9), (envB,2,0.99) give exactly two solves.
C9_SolvesPerDistinctKey ==
    /\ (pc \in {"context", "shuffle", "submit", "main"} /\ assets_dir = <<>>)
          => /\ Len(dp_solves) = Cardinality(DistinctKeys(dyna_prog_specs))
             /\ Range(dp_solves) = DistinctKeys(dyna_prog_specs)
    /\ pc = "context" => Len(BuildIndex(ScenarioSpecs, <<>>).solved) = 2

C9_Witness ==
    /\ pc = "context"
    /\ assets_dir = <<>>
    /\ Len(dyna_prog_specs) = 4
    /\ Len(dp_solves) = 2

\* C10: the shuffle returns a permutation of its input: same length and
\* same multiset, for the empty sequence and for repeated tasks too.
C10_ShufflePermutes ==
    pc = "submit" =>
        /\ Len(shuffled_tasks) = Len(experiment_tasks)
        /\ BagOfSeq(shuffled_tasks) = BagOfSeq(experiment_tasks)

C10_Witness ==
    /\ pc = "submit"
    /\ shuffled_tasks # experiment_tasks
    /\ \E i, j \in DOMAIN experiment_tasks :
          i # j /\ experiment_tasks[i] = experiment_tasks[j]

LoggedRefs == {log[i].ref : i \in DOMAIN log}

\* C1: the completion loop never notifies a handle twice and notifies only
\* submitted handles; when it ends without a raising retrieval it has
\* emitted exactly one notification per submitted handle, whatever the order
\* and grouping in which ray.wait reported them.
C1_EachHandleOnce ==
    /\ Injective([i \in DOMAIN log |-> log[i].ref])
    /\ LoggedRefs \subseteq Range(futures)
    /\ \A i \in DOMAIN log : log[i].task = TaskId(pool[log[i].ref].task)
    /\ pc = "done" => /\ Len(log) = Len(tasks_futures)
                      /\ LoggedRefs = {tasks_futures[i][2] : i \in DOMAIN tasks_futures}

C1_Witness ==
    /\ pc = "done"
    /\ Len(log) = 3
    /\ waits = 2
    /\ log[1].ref # 1

LastLeftZero == (pc = "done" /\ log # <<>>) => log[Len(log)].left = 0

\* C2 as stated: the remaining-count strictly decreases from each
\* notification to the next and the last notification reports 0.
C2_StrictlyDecreasing ==
    /\ \A i \in 1..(Len(log) - 1) : log[i + 1].left < log[i].left
    /\ LastLeftZero

\* C2 amended: the remaining-count never increases from one notification to
\* the next; it is the same for the notifications of one ray.wait call and
\* strictly smaller for the notifications of a later call; the last
\* notification of a completed loop reports 0.
C2_DecreasingPerWait ==
    /\ \A i \in 1..(Len(log) - 1) :
          /\ log[i + 1].left <= log[i].left
          /\ log[i + 1].call = log[i].call => log[i + 1].left = log[i].left
          /\ log[i + 1].call # log[i].call => log[i + 1].left < log[i].left
    /\ LastLeftZero

C2_Witness ==
    /\ pc = "done"
    /\ Len(log) = 3
    /\ log[1].call = log[2].call
    /\ log[1].left = 1
    /\ log[2].left = 1
    /\ log[3].left = 0

Exited == pc \in {"done", "aborted"}

\* C3: with a pool that ends every submitted call and a driver that keeps
\* running, the completion loop over at least one handle ends; every
\* ray.wait that returns a finished handle shrinks the outstanding list, and
\* the loop breaks exactly when the outstanding list is empty after the
\* notifications of a ray.wait call.
C3_LoopTerminates ==
    /\ (tasks_futures # <<>>) => <>Exited
    /\ [][(pc = "wait" /\ pc' = "for" /\ finished_tasks' # <<>>)
             => Len(unfinished_tasks') < Len(unfinished_tasks)]_vars
    /\ [][(pc = "for" /\ pc' = "done") => unfinished_tasks = <<>>]_vars
    /\ [][(pc = "for" /\ pc' = "wait") => unfinished_tasks # <<>>]_vars
    /\ [](pc = "done" => unfinished_tasks = <<>>)

C3_Witness ==
    /\ pc = "done"
    /\ Len(futures) = 3
    /\ waits = 3

FailedAtCursor ==
    /\ pc \in {"for", "aborted"}
    /\ idx <= Len(finished_tasks)
    /\ pool[finished_tasks[idx]].status = "failed"

\* C4: a raising retrieval aborts the loop where it happens: from the
\* moment the for loop stands at a failed handle the only step of the driver
\* is the abort, which emits no notification; once aborted, no notification
\* is emitted, no ray.wait is made and the outstanding list stays as it
\* was, so the failed handle, the handles after it and the outstanding
\* handles are never notified.
C4_AbortAtFailure ==
    /\ [](pc = "aborted" =>
            /\ FailedAtCursor
            /\ \A j \in idx..Len(finished_tasks) : finished_tasks[j] \notin LoggedRefs
            /\ \A h \in Range(unfinished_tasks) : h \notin LoggedRefs)
    /\ [][FailedAtCursor =>
            /\ pc' \in {pc, "aborted"}
            /\ UNCHANGED <<log, idx, waits, unfinished_tasks, finished_tasks>>]_vars
    /\ [][pc = "aborted" => pc' = "aborted"]_vars

C4_Witness ==
    /\ pc = "aborted"
    /\ idx < Len(finished_tasks)
    /\ unfinished_tasks # <<>>
    /\ \E h \in Range(unfinished_tasks) : pool[h].status = "running"

\* C11: get with a key that is not among the specs the index was built from
\* raises LookupError, computes nothing and leaves the index, the storage
\* and the solver untouched.
C11_GetUnknownKeyRaises ==
    /\ [][(probe_result.state = "pending" /\ probe_result'.state # "pending"
             /\ probe_key \notin DistinctKeys(dyna_prog_specs))
          => /\ probe_result'.state = "LookupError"
             /\ UNCHANGED <<dyna_prog_index, storage, dp_solves>>]_vars
    /\ [](probe_result.state = "LookupError"
             => /\ probe_key \notin DOMAIN dyna_prog_index
                /\ DOMAIN dyna_prog_index = DistinctKeys(dyna_prog_specs))

C11_Witness ==
    /\ probe_result.state = "LookupError"
    /\ probe_key = <<"envA", 1, 99>>
    /\ <<"envA", 1, 90>> \in DOMAIN dyna_prog_index
    /\ Len(dyna_prog_specs) = 2

AllExperimentKeys == {ExperimentKey(experiments[i]) : i \in DOMAIN experiments}

\* C12: the index is built in one step over the keys of all experiments,
\* before any lookup and before any task exists; from the first lookup on
\* it holds exactly the keys of the batch, so no lookup of
\* add_experiment_context raises.
C12_BuildThenGenerate ==
    /\ [](pc # "LookupError")
    /\ [](pc \in {"create_experiments", "specs"}
             => /\ dyna_prog_index = <<>>
                /\ experiments_and_context = <<>>
                /\ experiment_tasks = <<>>)
    /\ []((experiments_and_context # <<>> \/ experiment_tasks # <<>>)
             => DOMAIN dyna_prog_index = AllExperimentKeys)
    /\ [][dyna_prog_index' # dyna_prog_index
             => /\ Len(dyna_prog_specs) = Len(experiments)
                /\ experiments_and_context = <<>>
                /\ experiment_tasks = <<>>
                /\ DOMAIN dyna_prog_index' = AllExperimentKeys]_vars

C12_Witness ==
    /\ pc = "context"
    /\ Len(experiments_and_context) = 4
    /\ Cardinality(DOMAIN dyna_prog_index) = 4

PoolTasks == [h \in DOMAIN pool |-> pool[h].task]

\* C13: every task of the shuffled list is submitted once, in the shuffled
\* order: the i-th pair holds the i-th shuffled task and the handle the pool
\* gave for that very task, no handle is used twice and the pool has been
\* handed exactly the generated tasks, each once.
C13_SubmitOncePerTask ==
    /\ pc \notin {"submit", "main"} => (pool = <<>> /\ tasks_futures = <<>>)
    /\ pc \in {"submit", "main"} =>
          /\ Len(pool) = Len(tasks_futures)
          /\ Len(tasks_futures) <= Len(shuffled_tasks)
          /\ Injective([i \in DOMAIN tasks_futures |-> tasks_futures[i][2]])
          /\ \A i \in DOMAIN tasks_futures :
                /\ tasks_futures[i][1] = shuffled_tasks[i]
                /\ tasks_futures[i][2] \in DOMAIN pool
                /\ pool[tasks_futures[i][2]].task = shuffled_tasks[i]
          /\ \A h \in DOMAIN pool : pool[h].task = shuffled_tasks[h]
    /\ pc = "main" =>
          /\ PoolTasks = shuffled_tasks
          /\ BagOfSeq(PoolTasks) = BagOfSeq(experiment_tasks)

C13_Witness ==
    /\ pc = "main"
    /\ Len(tasks_futures) = 4
    /\ shuffled_tasks # experiment_tasks
    /\ tasks_futures[1][1] = experiment_tasks[4]

InvalidConfig(config) ==
    ~(MapperAcceptable(config.daaf_args) /\ AtMostOneBuffer(config.daaf_args))

SomeInvalidConfig ==
    \E i \in DOMAIN experiment_configs : InvalidConfig(experiment_configs[i])

\* C14: a batch with a configuration row that CPRArgs rejects stops with the
\* ValueError as its first step: no experiment is formed, the index is not
\* built, nothing is solved or persisted, no task is generated and nothing
\* is submitted.
C14_ConfigErrorFirst ==
    /\ [](SomeInvalidConfig =>
            /\ pc \in {"create_experiments", "ValueError"}
            /\ experiments = <<>>
            /\ dyna_prog_specs = <<>>
            /\ dyna_prog_index = <<>>
            /\ dp_solves = <<>>
            /\ storage = assets_dir
            /\ experiments_and_context = <<>>
            /\ experiment_tasks = <<>>
            /\ shuffled_tasks = <<>>
            /\ tasks_futures = <<>>
            /\ pool = <<>>)
    /\ [](pc = "ValueError" => SomeInvalidConfig)
    /\ [][(SomeInvalidConfig /\ pc = "create_experiments") => pc' = "ValueError"]_vars

C14_Witness ==
    /\ pc = "ValueError"
    /\ Len(envs_configs) = 2
    /\ Len(experiment_configs) = 2
    /\ ~InvalidConfig(experiment_configs[1])
    /\ experiment_configs[2].daaf_args.buffer_size = Some(10)
    /\ experiment_configs[2].daaf_args.buffer_size_multiplier = Some(2)
    /\ num_runs = 1

InLoop == pc \in {"wait", "for", "done", "aborted"}

\* the handles ray.wait has returned as finished so far
Reported == LoggedRefs \cup Range(finished_tasks)

\* C15: throughout the completion loop the handles reported finished and
\* the outstanding handles are disjoint and together are the submitted
\* handles; the outstanding list changes only in a ray.wait step and only
\* by losing handles.
C15_PartitionOfHandles ==
    /\ [](InLoop =>
            /\ Reported \cap Range(unfinished_tasks) = {}
            /\ Reported \cup Range(unfinished_tasks) = Range(futures)
            /\ Range(futures) = {tasks_futures[i][2] : i \in DOMAIN tasks_futures}
            /\ Injective(unfinished_tasks))
    /\ [][(InLoop /\ unfinished_tasks' # unfinished_tasks)
             => /\ pc = "wait"
                /\ pc' = "for"
                /\ waits' = waits + 1
                /\ Range(unfinished_tasks') \subseteq Range(unfinished_tasks)
                /\ Len(unfinished_tasks') < Len(unfinished_tasks)]_vars

C15_Witness ==
    /\ pc = "for"
    /\ idx = 2
    /\ Len(finished_tasks) = 2
    /\ Len(unfinished_tasks) = 1
    /\ Len(log) = 1

ExpIds == {experiment_tasks[j].exp_id : j \in DOMAIN experiment_tasks}

TasksOf(exp_id) == {j \in DOMAIN experiment_tasks : experiment_tasks[j].exp_id = exp_id}

Built == pc \in {"context", "LookupError", "shuffle", "submit", "main"}

\* C17: with baselines persisted by an earlier batch, build_index solves
\* exactly the keys of its specs that are not persisted, each once; a
\* persisted key is not solved again, its persisted vector is left as it
\* was and is the vector the index returns.
C17_ReusePersisted ==
    Built =>
        /\ Range(dp_solves) = DistinctKeys(dyna_prog_specs) \ DOMAIN assets_dir
        /\ Injective(dp_solves)
        /\ DOMAIN storage = DOMAIN assets_dir \cup DistinctKeys(dyna_prog_specs)
        /\ \A k \in DOMAIN assets_dir :
              /\ storage[k] = assets_dir[k]
              /\ k \in DistinctKeys(dyna_prog_specs) => dyna_prog_index[k] = assets_dir[k]
        /\ \A k \in DOMAIN dyna_prog_index : dyna_prog_index[k] = storage[k]

C17_Witness ==
    /\ pc = "context"
    /\ assets_dir # <<>>
    /\ <<"envA", 1, 90>> \in DistinctKeys(dyna_prog_specs)
    /\ dp_solves = <<<<"envA", 1, 99>>>>
    /\ Len(experiments_and_context) = 2

SpecsCollide ==
    \/ \E i, j \in DOMAIN dyna_prog_specs :
          /\ BaselineKey(dyna_prog_specs[i]) = BaselineKey(dyna_prog_specs[j])
          /\ dyna_prog_specs[i][4] # dyna_prog_specs[j][4]
    \/ \E i \in DOMAIN dyna_prog_specs :
          /\ BaselineKey(dyna_prog_specs[i]) \in DOMAIN assets_dir
          /\ assets_dir[BaselineKey(dyna_prog_specs[i])]
                # DPSolve(dyna_prog_specs[i][4], dyna_prog_specs[i][3])

NoTasks == tasks_futures = <<>>

\* C20: with no task submitted the driver still calls ray.wait, once and on
\* the empty list; it emits no notification; it reaches break only after
\* that call has returned two empty lists, does so when the call returns,
\* and stays in the call for ever when ray.wait blocks on an empty list.
C20_EmptyBatchWaitsOnce ==
    /\ [](NoTasks =>
            /\ log = <<>>
            /\ waits <= 1
            /\ pc # "aborted"
            /\ pc \in {"for", "done"} =>
                  /\ waits = 1
                  /\ wait_empty_returns
                  /\ finished_tasks = <<>>
                  /\ unfinished_tasks = <<>>
            /\ ~wait_empty_returns => (pc \in {"main", "wait"} /\ waits = 0))
    /\ (NoTasks /\ wait_empty_returns) => <>(pc = "done")
    /\ (NoTasks /\ ~wait_empty_returns) => <>[](pc = "wait")

C20_Witness ==
    /\ NoTasks
    /\ pc = "done"
    /\ waits = 1
    /\ wait_empty_returns

\* C18: once build_index has returned, no step of the batch changes the
\* index: not the lookups and the context attachment, not the generation,
\* the shuffle and the submission of the tasks, not the completion loop nor
\* the pool running the tasks.
C18_IndexReadOnly ==
    /\ [][pc \notin {"create_experiments", "specs"}
             => dyna_prog_index' = dyna_prog_index]_vars
    /\ [][dyna_prog_index # <<>> => dyna_prog_index' = dyna_prog_index]_vars
    /\ [](Built \/ InLoop => DOMAIN dyna_prog_index = AllExperimentKeys)

C18_Witness ==
    /\ pc = "done"
    /\ Cardinality(DOMAIN dyna_prog_index) = 2
    /\ Len(log) = 2
    /\ waits = 2

====
